---- MODULE Spec2Model ----
(***************************************************************************)
(* A model of mtsync: the identifier codec (helpers.py), the imagined      *)
(* list (imagined.py), the list reconciler, the tree analyzer and the      *)
(* executor (synchronizer.py).                                             *)
(*                                                                         *)
(* Representation of the Python values:                                    *)
(*   str        a sequence of one-character strings, "" is << >>           *)
(*   int | str  a tagged value, PyInt(n) or PyStr(s); None is PyNone       *)
(*   dict       a function from keys to str values; the key ".id" is an    *)
(*              ordinary key of the function                               *)
(*   an entry of Imagined.state  [d |-> dict, frozen |-> BOOLEAN], frozen  *)
(*              telling a frozendict (item assignment raises TypeError)    *)
(*              from a dict                                                *)
(*   a path     the sequence of its "/"-separated segments, "" is << >>    *)
(*   a call that may raise returns a record with a field raised            *)
(***************************************************************************)
EXTENDS Integers, Sequences, FiniteSets, TLC

\* ------------------------------------------------------------------ bounds

\* SpecImagined: the longest imagined list and the number of operations.
MaxImagined == 3
MaxOps == 3
\* SpecList: the number of items of the current and the desired list together.
MaxItems == 4
\* SpecRun: the number of items of the two collections, on the device and in
\* the desired tree together.
MaxRunItems == 4
\* SpecMatch: the number of items the matcher is given.
MaxMatchItems == 3
\* SpecTree: the number of mappings a desired tree nests below its root.
MaxDepth == 2
\* SpecMirror: the number of items of the current and the desired list together.
MaxMirrorItems == 5

\* ------------------------------------------------------- Python plumbing

PyInt(n) == [int |-> n]
PyStr(s) == [str |-> s]
PyNone == [none |-> TRUE]
IsStr(x) == "str" \in DOMAIN x
IsNone(x) == "none" \in DOMAIN x

Min(S) == CHOOSE x \in S : \A y \in S : x <= y
Max(S) == CHOOSE x \in S : \A y \in S : x >= y

Range(s) == {s[i] : i \in 1..Len(s)}

\* copy(l), [f(x) for x in l]: the list whose item at each position is that of
\* l, as a list value of its own
AsList(l) == SubSeq(l, 1, Len(l))

\* l[:i] + l[i+1:] for the 1-based position i
RemoveAt(s, i) == SubSeq(s, 1, i - 1) \o SubSeq(s, i + 1, Len(s))

\* list.insert(i - 1, x): x lands at the 1-based position i
InsertAt(s, i, x) == SubSeq(s, 1, i - 1) \o <<x>> \o SubSeq(s, i, Len(s))

\* list.remove(x): the first element equal to x goes
RemoveFirst(s, x) == RemoveAt(s, Min({i \in 1..Len(s) : s[i] = x}))

\* {k: v for k, v in d.items() if k in keys}
Restrict(d, keys) == [k \in (DOMAIN d) \cap keys |-> d[k]]

\* a | b for two dicts: the right operand wins
DictOr(a, b) == b @@ a

\* ------------------------------------------------------------- helpers.py

HexChars == <<"0", "1", "2", "3", "4", "5", "6", "7",
              "8", "9", "a", "b", "c", "d", "e", "f">>

HexVal(c) == (CHOOSE i \in 1..16 : HexChars[i] = c) - 1

\* hex(i)[2:] for i >= 0
RECURSIVE hex(_)
hex(i) ==
    IF i < 16 THEN <<HexChars[i + 1]>>
    ELSE hex(i \div 16) \o <<HexChars[(i % 16) + 1]>>

\* int(s, 16)
RECURSIVE int16(_)
int16(s) ==
    IF Len(s) = 1 THEN HexVal(s[1])
    ELSE 16 * int16(SubSeq(s, 1, Len(s) - 1)) + HexVal(s[Len(s)])

mt_str(i) == IF IsStr(i) THEN i.str ELSE hex(i.int)

mt_int(i) ==
    IF ~IsStr(i) THEN i.int
    ELSE IF i.str[1] = "*" THEN int16(Tail(i.str))
    ELSE int16(i.str)

\* ------------------------------------------------------------ imagined.py

\* item[".id"] = v; on a frozendict nothing is stored (the caller raises)
SetId(e, v) == [e EXCEPT !.d = DictOr(e.d, ".id" :> v)]

IdOf(e) == e.d[".id"]

_max_id(state) ==
    Max({1} \cup {mt_int(PyStr(IdOf(state[i]))) : i \in 1..Len(state)})

\* update that takes the item out and puts its replacement at the end
updateAtEnd(state, id, new_state, new_frozen) ==
    LET hits == {i \in 1..Len(state) : IdOf(state[i]) = mt_str(id)}
    IN  IF hits = {} THEN state
        ELSE LET i == Min(hits)
             IN  Append(RemoveAt(state, i),
                        [d |-> DictOr(new_state, ".id" :> IdOf(state[i])),
                         frozen |-> new_frozen])

update(state, id, new_state, new_frozen) ==
    LET hits == {i \in 1..Len(state) : IdOf(state[i]) = mt_str(id)}
    IN  IF hits = {} THEN state
        ELSE LET i == Min(hits)
             IN  [state EXCEPT ![i] =
                     [d |-> DictOr(new_state, ".id" :> IdOf(state[i])),
                      frozen |-> new_frozen]]

\* append without the + 1: the new item takes the maximum id itself
appendWithMaxId(state, item) ==
    Append(state, [d |-> DictOr(item, ".id" :> mt_str(PyInt(_max_id(state)))),
                   frozen |-> FALSE])

append(state, item) ==
    Append(state, [d |-> DictOr(item, ".id" :> mt_str(PyInt(_max_id(state) + 1))),
                   frozen |-> FALSE])

InBetween(e, bottom, top) ==
    LET item_id == mt_int(PyStr(IdOf(e)))
    IN  /\ (IsNone(bottom) \/ item_id >= mt_int(bottom))
        /\ (IsNone(top) \/ item_id < mt_int(top))

\* The loop renumbers the items in list order and stops, raising, at the
\* first frozen item in range: the items before it keep their new ids.
_move_all_between(state, bottom, top, change) ==
    LET hit(i) == InBetween(state[i], bottom, top)
        bad == {i \in 1..Len(state) : hit(i) /\ state[i].frozen}
        stop == IF bad = {} THEN Len(state) + 1 ELSE Min(bad)
    IN  [state |-> AsList([i \in 1..Len(state) |->
                              IF i < stop /\ hit(i)
                              THEN SetId(state[i],
                                         mt_str(PyInt(mt_int(PyStr(IdOf(state[i])))
                                                      + change)))
                              ELSE state[i]]),
         raised |-> bad # {}]

\* delete that leaves the ids of the later items as they are
deleteKeepingIds(state, id) ==
    LET hits == {i \in 1..Len(state) : IdOf(state[i]) = mt_str(id)}
    IN  IF hits = {} THEN [state |-> state, raised |-> FALSE]
        ELSE [state |-> RemoveAt(state, Min(hits)), raised |-> FALSE]

\* bottom = i + 1 for the 0-based index i, which is the 1-based index
delete(state, id) ==
    LET hits == {i \in 1..Len(state) : IdOf(state[i]) = mt_str(id)}
    IN  IF hits = {} THEN [state |-> state, raised |-> FALSE]
        ELSE LET i == Min(hits)
             IN  _move_all_between(RemoveAt(state, i), PyInt(i), PyNone, -1)

\* move that shifts the ids before it looks for the two items
moveShiftingFirst(state, number, destination) ==
    LET src == {i \in 1..Len(state) : IdOf(state[i]) = mt_str(number)}
        dst == {i \in 1..Len(state) : IdOf(state[i]) = mt_str(destination)}
        shifted == _move_all_between(state, destination, number, 1)
    IN  IF src = {} \/ dst = {} THEN [state |-> shifted.state, raised |-> TRUE]
        ELSE LET source_i == Max(src)
                 destination_i == Max(dst)
                 placed == RemoveAt(InsertAt(shifted.state, destination_i,
                                             shifted.state[source_i]),
                                    source_i + 1)
             IN  IF shifted.raised THEN shifted
                 ELSE IF placed[destination_i].frozen
                 THEN [state |-> placed, raised |-> TRUE]
                 ELSE [state |-> [placed EXCEPT
                                     ![destination_i] = SetId(@, mt_str(destination))],
                       raised |-> FALSE]

\* source_i and destination_i are the last matches of the scan.  After the
\* list surgery the moved item sits at destination_i (for a source behind
\* the destination); assigning its id raises when it is frozen.
move(state, number, destination) ==
    LET src == {i \in 1..Len(state) : IdOf(state[i]) = mt_str(number)}
        dst == {i \in 1..Len(state) : IdOf(state[i]) = mt_str(destination)}
    IN  IF src = {} \/ dst = {} THEN [state |-> state, raised |-> TRUE]
        ELSE LET source_i == Max(src)
                 destination_i == Max(dst)
                 shifted == _move_all_between(state, destination, number, 1)
                 placed == RemoveAt(InsertAt(shifted.state, destination_i,
                                             shifted.state[source_i]),
                                    source_i + 1)
             IN  IF shifted.raised THEN shifted
                 ELSE IF placed[destination_i].frozen
                 THEN [state |-> placed, raised |-> TRUE]
                 ELSE [state |-> [placed EXCEPT
                                     ![destination_i] = SetId(@, mt_str(destination))],
                       raised |-> FALSE]

\* --------------------------------------------- synchronizer.py: the matcher

\* len(d.keys())
KeyCount(d) == Cardinality(DOMAIN d)

\* _score_items without the skip of ".id" (lines 39-40)
_score_itemsCountingId(a, b) ==
    LET small == IF KeyCount(a) > KeyCount(b) THEN b ELSE a
        large == IF KeyCount(a) > KeyCount(b) THEN a ELSE b
    IN  Cardinality({k \in DOMAIN small : k \in DOMAIN large /\ large[k] = small[k]})

\* The loop over the dict with no more keys, counting its keys (but ".id")
\* that the other dict holds with the same value.
_score_items(a, b) ==
    LET small == IF KeyCount(a) > KeyCount(b) THEN b ELSE a
        large == IF KeyCount(a) > KeyCount(b) THEN a ELSE b
    IN  Cardinality({k \in DOMAIN small :
                        k # ".id" /\ k \in DOMAIN large /\ large[k] = small[k]})

_test_equality(a, b) ==
    LET fa == Restrict(a, (DOMAIN a) \ {".id"})
        fb == Restrict(b, (DOMAIN b) \ {".id"})
    IN  IF KeyCount(fa) # KeyCount(fb) THEN FALSE
        ELSE _score_items(fa, fb) = KeyCount(fa)

\* ------------------------------------------------------------- action.py

ActionKind == [PATCH |-> 1, PUT |-> 2, DELETE |-> 3, POST |-> 4]

\* set_dict or {} and current_dict or {}: an absent dict is the empty one
Action(kind, path, set_dict, current_dict) ==
    [kind |-> kind, path |-> path, set_dict |-> set_dict,
     current_dict |-> current_dict]

\* the strings the reconciler writes into paths and payloads
S_move == <<"m", "o", "v", "e">>
S_set == <<"s", "e", "t">>

\* ------------------------------------- synchronizer.py: the list reconciler

\* A frame holds the locals of _analyze_list and of the two phases it calls:
\*   current_items, desired_items   the pending (frozen) lists of phase 1
\*   max_current_item, max_desired_item   the pair of the last iteration
\*   imagined_items   Imagined.state
\*   actions          the actions emitted so far
\*   raised           an exception left the function
NoItem == [none |-> TRUE]

Frame(current_items, desired_items) ==
    [current_items |-> current_items,
     desired_items |-> desired_items,
     max_current_item |-> NoItem,
     max_desired_item |-> NoItem,
     imagined_items |-> AsList([i \in 1..Len(current_items) |->
                                   [d |-> current_items[i], frozen |-> FALSE]]),
     actions |-> <<>>,
     raised |-> FALSE]

\* NeedsPatch with the test for the empty string left out
NeedsPatchAnyMissing(c, d) ==
    \E k \in DOMAIN d :
        \/ k \notin DOMAIN c
        \/ k \in DOMAIN c /\ c[k] # d[k]

\* the test of lines 108-110 over the keys of the desired item
NeedsPatch(c, d) ==
    \E k \in DOMAIN d :
        \/ k \notin DOMAIN c /\ d[k] # <<>>
        \/ k \in DOMAIN c /\ c[k] # d[k]

\* itertools.product(current_items, desired_items) visits p before q
ProductBefore(p, q) == p[1] < q[1] \/ (p[1] = q[1] /\ p[2] < q[2])

\* The pair the scan of lines 86-96 ends with: the first pair, in product
\* order, of the greatest score, when that score is above max_score = 0.
MaxPair(cur, des) ==
    LET pairs == (1..Len(cur)) \X (1..Len(des))
        score(p) == _score_items(cur[p[1]], des[p[2]])
        top == {p \in pairs : score(p) > 0 /\ \A q \in pairs : score(q) <= score(p)}
    IN  IF top = {} THEN <<>>
        ELSE CHOOSE p \in top : \A q \in top : q = p \/ ProductBefore(p, q)

\* One iteration of the while loop of lines 85-122.
PairIteration(current_path, f) ==
    LET best == MaxPair(f.current_items, f.desired_items)
    IN  IF best = <<>> THEN [f EXCEPT !.raised = TRUE]
        ELSE LET c == f.current_items[best[1]]
                 d == f.desired_items[best[2]]
                 patch == NeedsPatch(c, d)
             IN  [f EXCEPT
                     !.current_items = RemoveFirst(@, c),
                     !.desired_items = RemoveFirst(@, d),
                     !.max_current_item = c,
                     !.max_desired_item = d,
                     !.actions =
                         IF patch
                         THEN Append(@, Action("PATCH", Append(current_path, c[".id"]),
                                               d, c))
                         ELSE @,
                     !.imagined_items =
                         IF patch THEN update(@, PyStr(c[".id"]), d, TRUE) ELSE @]

\* PutLoop walking the pending desired items from the last to the first
RECURSIVE PutLoopReversed(_, _, _)
PutLoopReversed(current_path, f, k) ==
    IF k > Len(f.desired_items) THEN f
    ELSE LET item == f.desired_items[Len(f.desired_items) + 1 - k]
         IN  PutLoopReversed(current_path,
                             [f EXCEPT
                                 !.actions = Append(@, Action("PUT", current_path,
                                                              item, <<>>)),
                                 !.imagined_items = append(@, item)],
                             k + 1)

\* The for loop of lines 124-132 from its k-th item on.
RECURSIVE PutLoop(_, _, _)
PutLoop(current_path, f, k) ==
    IF k > Len(f.desired_items) THEN f
    ELSE PutLoop(current_path,
                 [f EXCEPT
                     !.actions = Append(@, Action("PUT", current_path,
                                                  f.desired_items[k], <<>>)),
                     !.imagined_items = append(@, f.desired_items[k])],
                 k + 1)

\* The for loop of lines 134-142 from its k-th item on.
RECURSIVE DeleteLoop(_, _, _)
DeleteLoop(current_path, f, k) ==
    IF k > Len(f.current_items) THEN f
    ELSE LET c == f.current_items[k]
             r == delete(f.imagined_items, PyStr(c[".id"]))
             g == [f EXCEPT
                      !.actions = Append(@, Action("DELETE",
                                                   Append(current_path, c[".id"]),
                                                   <<>>, c)),
                      !.imagined_items = r.state,
                      !.raised = r.raised]
         IN  IF r.raised THEN g ELSE DeleteLoop(current_path, g, k + 1)

RECURSIVE PairLoop(_, _)
PairLoop(current_path, f) ==
    IF f.raised \/ Len(f.current_items) = 0 \/ Len(f.desired_items) = 0 THEN f
    ELSE PairLoop(current_path, PairIteration(current_path, f))

_analyze_list_add_remove(current_path, f) ==
    LET paired == PairLoop(current_path, f)
        put == PutLoop(current_path, paired, 1)
    IN  IF paired.raised THEN paired ELSE DeleteLoop(current_path, put, 1)

\* ReorderIteration without the test of the position it is at (lines 158-159)
ReorderIterationNoSkip(current_path, f, desired_item, i) ==
    LET state == f.imagined_items
        later == {j \in (i + 1)..Len(state) : _test_equality(desired_item, state[j].d)}
    IN  IF i > Len(state) THEN [f EXCEPT !.raised = TRUE]
        ELSE IF later = {} THEN f
        ELSE LET current_id == IdOf(state[Min(later)])
                 desired_id == IdOf(state[i])
                 moved == move(state, PyStr(current_id), PyStr(desired_id))
             IN  [f EXCEPT
                     !.imagined_items = moved.state,
                     !.raised = moved.raised,
                     !.actions =
                         IF moved.raised THEN @
                         ELSE Append(@, Action("POST", Append(current_path, S_move),
                                               ("numbers" :> current_id)
                                                   @@ ("destination" :> desired_id),
                                               <<>>))]

\* ReorderIteration writing the two ids into the payload the other way round
ReorderIterationSwapped(current_path, f, desired_item, i) ==
    LET state == f.imagined_items
        later == {j \in (i + 1)..Len(state) : _test_equality(desired_item, state[j].d)}
    IN  IF i > Len(state) THEN [f EXCEPT !.raised = TRUE]
        ELSE IF _test_equality(desired_item, state[i].d) \/ later = {} THEN f
        ELSE LET current_id == IdOf(state[Min(later)])
                 desired_id == IdOf(state[i])
                 moved == move(state, PyStr(current_id), PyStr(desired_id))
             IN  [f EXCEPT
                     !.imagined_items = moved.state,
                     !.raised = moved.raised,
                     !.actions =
                         IF moved.raised THEN @
                         ELSE Append(@, Action("POST", Append(current_path, S_move),
                                               ("numbers" :> desired_id)
                                                   @@ ("destination" :> current_id),
                                               <<>>))]

\* One iteration of the for loop of lines 157-179, for the 1-based position
\* i of the desired list.  state[i] past the end of the list is an IndexError.
ReorderIteration(current_path, f, desired_item, i) ==
    LET state == f.imagined_items
        later == {j \in (i + 1)..Len(state) : _test_equality(desired_item, state[j].d)}
    IN  IF i > Len(state) THEN [f EXCEPT !.raised = TRUE]
        ELSE IF _test_equality(desired_item, state[i].d) \/ later = {} THEN f
        ELSE LET current_id == IdOf(state[Min(later)])
                 desired_id == IdOf(state[i])
                 moved == move(state, PyStr(current_id), PyStr(desired_id))
             IN  [f EXCEPT
                     !.imagined_items = moved.state,
                     !.raised = moved.raised,
                     !.actions =
                         IF moved.raised THEN @
                         ELSE Append(@, Action("POST", Append(current_path, S_move),
                                               ("numbers" :> current_id)
                                                   @@ ("destination" :> desired_id),
                                               <<>>))]

RECURSIVE ReorderLoop(_, _, _, _)
ReorderLoop(current_path, f, desired, i) ==
    IF f.raised \/ i > Len(desired) THEN f
    ELSE ReorderLoop(current_path,
                     ReorderIteration(current_path, f, desired[i], i),
                     desired, i + 1)

\* constants.py is not part of the sources at hand: the set of paths whose
\* collections take no move command.
S_nm == <<"n", "m">>
non_movable_namespaces == {<<S_nm>>}

_analyze_list_reorder(current_path, f, desired) ==
    IF current_path \in non_movable_namespaces THEN f
    ELSE ReorderLoop(current_path, f, desired, 1)

\* set(chain(*[item.keys() for item in desired_items])) | {".id"}
Proplist(desired_items) ==
    UNION {DOMAIN desired_items[i] : i \in 1..Len(desired_items)} \cup {".id"}

\* _analyze_list once connection.get has returned current_items
ReconcileList(current_path, current_items, analyzed_list) ==
    LET phase1 == _analyze_list_add_remove(current_path,
                                           Frame(current_items, analyzed_list))
    IN  IF phase1.raised THEN phase1
        ELSE _analyze_list_reorder(current_path, phase1, analyzed_list)

\* ------------------------------------ synchronizer.py: the leaf reconciler

\* _analyze_dict once connection.get has returned current_state.  keys is the
\* order of analyzed_dict.items(); current_state[k] of an absent key is a
\* KeyError.
_analyze_dict(current_path, current_state, keys, analyzed_dict) ==
    LET differs(i) == \/ keys[i] \notin DOMAIN current_state
                      \/ current_state[keys[i]] # analyzed_dict[keys[i]]
        hits == {i \in 1..Len(keys) : differs(i)}
    IN  IF hits = {} THEN [raised |-> FALSE, actions |-> <<>>]
        ELSE IF keys[Min(hits)] \notin DOMAIN current_state
        THEN [raised |-> TRUE, actions |-> <<>>]
        ELSE [raised |-> FALSE,
              actions |-> <<Action("POST", Append(current_path, S_set),
                                   analyzed_dict, current_state)>>]

\* ------------------------------------------- synchronizer.py: run, _apply

\* chain joining the lists last first
RECURSIVE chainLastFirst(_)
chainLastFirst(lists) ==
    IF lists = <<>> THEN <<>> ELSE chainLastFirst(Tail(lists)) \o Head(lists)

\* itertools.chain(*lists)
RECURSIVE chain(_)
chain(lists) ==
    IF lists = <<>> THEN <<>> ELSE Head(lists) \o chain(Tail(lists))

\* InsertByKind putting an action before the actions of its own kind
InsertByKindFirst(sorted, a) ==
    InsertAt(sorted,
             Cardinality({i \in 1..Len(sorted) :
                             ActionKind[sorted[i].kind] < ActionKind[a.kind]}) + 1,
             a)

\* a joins a sorted list behind every action whose kind.value is not greater
InsertByKind(sorted, a) ==
    InsertAt(sorted,
             Cardinality({i \in 1..Len(sorted) :
                             ActionKind[sorted[i].kind] <= ActionKind[a.kind]}) + 1,
             a)

\* actions.sort(key=lambda action: action.kind.value); list.sort is stable
RECURSIVE SortByKind(_)
SortByKind(l) ==
    IF l = <<>> THEN <<>>
    ELSE InsertByKind(SortByKind(SubSeq(l, 1, Len(l) - 1)), l[Len(l)])

\* IsError asking for a detail as well
IsErrorWithDetail(r) ==
    ~IsNone(r) /\ "error" \in DOMAIN r /\ "detail" \in DOMAIN r

\* result is not None and "error" in result
IsError(r) == ~IsNone(r) /\ "error" \in DOMAIN r

\* path.endswith("/move"): no segment holds a slash
EndsWithMove(path) == Len(path) > 0 /\ path[Len(path)] = S_move

\* Ignored without the test of the path
IgnoredAnyPath(action, r) ==
    "detail" \in DOMAIN r /\ r["detail"] = "no such command"

\* the test of lines 349-353 that lets the loop continue
Ignored(action, r) ==
    /\ "detail" \in DOMAIN r
    /\ r["detail"] = "no such command"
    /\ EndsWithMove(action.path)

\* the response check of lines 348-358 raises
Raises(action, r) == IsError(r) /\ ~Ignored(action, r)

\* ----------------------------------------------- synchronizer.py: _analyze

\* the values of a desired tree as json.load returns them; a dict has its keys
\* in insertion order
TNull == [kind |-> "null"]
TStr(s) == [kind |-> "str", str |-> s]
TInt(n) == [kind |-> "int", int |-> n]
TList(items) == [kind |-> "list", items |-> items]
TDict(keys, value) == [kind |-> "dict", keys |-> keys, value |-> value]

\* a value of a mapping as the leaf reconciler compares it with the answer of
\* the device: a str is itself, any other value equals no str
PyValueOf(v) == IF v.kind = "str" THEN v.str ELSE <<"(", v.kind, ")">>

\* the awaitables _analyze appends: a call of _analyze_list, a call of
\* _analyze_dict, and a call of _analyze that raises once it runs
ListCall(path, value) ==
    [kind |-> "list", path |-> path, keys |-> <<>>, value |-> value]
DictCall(path, keys, value) ==
    [kind |-> "dict", path |-> path, keys |-> keys, value |-> value]
RaisingCall(path) ==
    [kind |-> "raise", path |-> path, keys |-> <<>>, value |-> <<>>]

\* a key of one character as the segment of a path
Segment(k) == <<k>>

\* the elif of lines 260-264
IsLeaf(v) ==
    /\ v.kind = "dict"
    /\ Len(v.keys) > 0
    /\ v.value[v.keys[1]].kind = "str"

\* _analyze making every item_path from the key alone
RECURSIVE _analyzeFlatPath(_, _)
_analyzeFlatPath(current_path, tree) ==
    IF tree.kind = "null" THEN <<>>
    ELSE IF tree.kind # "dict" THEN <<RaisingCall(current_path)>>
    ELSE chain([i \in 1..Len(tree.keys) |->
                   IF tree.value[tree.keys[i]].kind = "list"
                   THEN <<ListCall(<<Segment(tree.keys[i])>>,
                                   tree.value[tree.keys[i]].items)>>
                   ELSE IF IsLeaf(tree.value[tree.keys[i]])
                   THEN <<DictCall(<<Segment(tree.keys[i])>>,
                                   tree.value[tree.keys[i]].keys,
                                   [k \in DOMAIN tree.value[tree.keys[i]].value |->
                                       PyValueOf(tree.value[tree.keys[i]].value[k])])>>
                   ELSE _analyzeFlatPath(<<Segment(tree.keys[i])>>,
                                         tree.value[tree.keys[i]])])

\* _analyze returning no action for a tree that is no mapping
RECURSIVE _analyzeLenient(_, _)
_analyzeLenient(current_path, tree) ==
    IF tree.kind # "dict" THEN <<>>
    ELSE chain([i \in 1..Len(tree.keys) |->
                   IF tree.value[tree.keys[i]].kind = "list"
                   THEN <<ListCall(Append(current_path, Segment(tree.keys[i])),
                                   tree.value[tree.keys[i]].items)>>
                   ELSE IF IsLeaf(tree.value[tree.keys[i]])
                   THEN <<DictCall(Append(current_path, Segment(tree.keys[i])),
                                   tree.value[tree.keys[i]].keys,
                                   [k \in DOMAIN tree.value[tree.keys[i]].value |->
                                       PyValueOf(tree.value[tree.keys[i]].value[k])])>>
                   ELSE _analyzeLenient(Append(current_path, Segment(tree.keys[i])),
                                        tree.value[tree.keys[i]])])

\* The awaitables a call of _analyze and the calls of _analyze below it hand
\* to gather, in the order their results are chained.  None returns [] (line
\* 247), a list raises (line 250), any other value that is no dict raises at
\* tree.items() (line 253); item_path is current_path + "/" + k.
RECURSIVE _analyze(_, _)
_analyze(current_path, tree) ==
    IF tree.kind = "null" THEN <<>>
    ELSE IF tree.kind # "dict" THEN <<RaisingCall(current_path)>>
    ELSE chain([i \in 1..Len(tree.keys) |->
                   IF tree.value[tree.keys[i]].kind = "list"
                   THEN <<ListCall(Append(current_path, Segment(tree.keys[i])),
                                   tree.value[tree.keys[i]].items)>>
                   ELSE IF IsLeaf(tree.value[tree.keys[i]])
                   THEN <<DictCall(Append(current_path, Segment(tree.keys[i])),
                                   tree.value[tree.keys[i]].keys,
                                   [k \in DOMAIN tree.value[tree.keys[i]].value |->
                                       PyValueOf(tree.value[tree.keys[i]].value[k])])>>
                   ELSE _analyze(Append(current_path, Segment(tree.keys[i])),
                                 tree.value[tree.keys[i]])])

\* -------------------------------------------------- settings.py, cli.py

PyBool(b) == [bool |-> b]

\* bool(x) of a str, a bool or None
Truthy(x) ==
    IF IsNone(x) THEN FALSE
    ELSE IF "bool" \in DOMAIN x THEN x.bool
    ELSE x.str # ""

\* Settings.fields, and field_name.upper()
Fields == {"hostname", "username", "password", "ignore_certificate_errors"}
Upper == [hostname |-> "HOSTNAME", username |-> "USERNAME", password |-> "PASSWORD",
          ignore_certificate_errors |-> "IGNORE_CERTIFICATE_ERRORS"]

\* Settings.__init__
NewSettings ==
    [hostname |-> PyNone, username |-> PyNone, password |-> PyNone,
     ignore_certificate_errors |-> PyBool(FALSE)]

\* the lowercase name is applied first and the uppercase name after it
apply_environment_variables(settings, environ) ==
    [f \in Fields |->
        IF Upper[f] \in DOMAIN environ THEN PyStr(environ[Upper[f]])
        ELSE IF f \in DOMAIN environ THEN PyStr(environ[f])
        ELSE settings[f]]

\* the default= of the click options of main (cli.py:28-55)
ClickDefaults ==
    [hostname |-> PyStr("192.168.88.1"), username |-> PyStr("admin"),
     password |-> PyStr(""), ignore_certificate_errors |-> PyBool(FALSE)]

\* the parameters click calls main with: the value of an option given on the
\* command line, the default of an option that is not
ClickParams(options) ==
    [f \in Fields |-> IF f \in DOMAIN options THEN options[f] ELSE ClickDefaults[f]]

apply_arguments(settings, params) ==
    [f \in Fields |->
        IF f = "ignore_certificate_errors"
        THEN IF Truthy(params[f]) THEN PyBool(TRUE) ELSE settings[f]
        ELSE IF ~IsNone(params[f]) THEN params[f] ELSE settings[f]]

apply_metadata(settings, metdata) ==
    [f \in Fields |->
        IF f \in DOMAIN metdata /\ ~IsNone(metdata[f]) THEN metdata[f]
        ELSE settings[f]]

\* Settings.valid
valid(settings) == Truthy(settings.hostname) /\ Truthy(settings.username)

\* ------------------------------------------------------------------ state

VARIABLES
    \* Imagined on its own (SpecImagined)
    state,            \* Imagined.state
    ops,              \* the number of calls made so far
    state_raised,     \* the last call raised
    call,             \* the last call: its name, its arguments, the list before it
    \* one collection under _analyze_list (SpecList)
    current_path,     \* the path of the collection
    analyzed_list,    \* the desired items
    snapshot,         \* the list connection.get returned, as it was returned
    frame,            \* the locals of the two phases
    desired_i,        \* the position phase 2 is at (1-based)
    list_pc,          \* "pair", "delete", "reorder", "done" or "raised"
    \* Synchronizer.run against a device (SpecRun)
    desired_tree,     \* the desired tree: its entries in key order
    device,           \* the device: what each path holds
    run_no,           \* 1 for the first run, 2 for the run that follows it
    run_pc,           \* "analyze", "apply", "done" or "failed"
    tasks,            \* the analysis of each entry: "get", "done" or "raised"
    emitted,          \* the flat action list as _analyze returned it
    actions,          \* the action list of run, sorted once _analyze returned
    sent,             \* the number of actions whose request was sent
    checked,          \* the number of actions whose response was checked
    result,           \* the last response _apply received
    outstanding,      \* the requests in flight
    requests,         \* the mutating requests the device received in this run
    clean,            \* no response to a mutating request was an error so far
    \* Synchronizer._analyze on a desired tree (SpecTree)
    tree_root,        \* the tree _analyze is called with at the path ""
    endpoints,        \* what connection.get returns for each path
    awaitables,       \* the awaitables of the walk: "pending", "done" or "raised"
    reads,            \* the paths connection.get was called with, in call order
    analyze_pc,       \* "start", "gather", "done" or "failed"
    analyzed,         \* the flat action list _analyze returned
    \* main loading the settings (SpecMain)
    environ,          \* os.environ
    options,          \* the options given on the command line
    metadata,         \* the metadata key of the input document
    settings,         \* the Settings object
    main_pc           \* "environment", "arguments", "metadata" or "loaded"

imaginedVars == <<state, ops, state_raised, call>>
listVars == <<current_path, analyzed_list, snapshot, frame, desired_i, list_pc>>
runVars == <<desired_tree, device, run_no, run_pc, tasks, emitted, actions, sent,
             checked, result, outstanding, requests, clean>>
treeVars == <<tree_root, endpoints, awaitables, reads, analyze_pc, analyzed>>
mainVars == <<environ, options, metadata, settings, main_pc>>
vars == <<imaginedVars, listVars, runVars, treeVars, mainVars>>

NoCall == [op |-> "none"]

ImaginedIdle == state = <<>> /\ ops = 0 /\ state_raised = FALSE /\ call = NoCall

ListIdle ==
    /\ current_path = <<>>
    /\ analyzed_list = <<>>
    /\ snapshot = <<>>
    /\ frame = Frame(<<>>, <<>>)
    /\ desired_i = 1
    /\ list_pc = "idle"

RunIdle ==
    /\ desired_tree = <<>>
    /\ device = <<>>
    /\ run_no = 0
    /\ run_pc = "idle"
    /\ tasks = <<>>
    /\ emitted = <<>>
    /\ actions = <<>>
    /\ sent = 0
    /\ checked = 0
    /\ result = PyNone
    /\ outstanding = {}
    /\ requests = <<>>
    /\ clean = TRUE

TreeIdle ==
    /\ tree_root = <<>>
    /\ endpoints = <<>>
    /\ awaitables = <<>>
    /\ reads = <<>>
    /\ analyze_pc = "idle"
    /\ analyzed = <<>>

MainIdle ==
    /\ environ = <<>>
    /\ options = <<>>
    /\ metadata = <<>>
    /\ settings = <<>>
    /\ main_pc = "idle"

\* ------------------------------------------------------------- the inputs

FieldKeys == {"a", "b"}
FieldValues == {<<>>, <<"x">>}

\* every dict over some of the keys
DictsOver(keys) == UNION {[ks -> FieldValues] : ks \in SUBSET keys}

ListsOf(S, n) == UNION {[1..k -> S] : k \in 0..n}

\* the items of a collection as the device lists them: ids 1..n in list order
WithIds(items) ==
    AsList([i \in 1..Len(items) |-> DictOr(items[i], ".id" :> hex(i))])

S_c == <<"c">>

\* ------------------------------------------------- SpecList: one collection

\* The device honours .proplist: an item it returns has no other key.
InitListOf(n) ==
    /\ ImaginedIdle
    /\ RunIdle
    /\ TreeIdle
    /\ MainIdle
    /\ current_path \in {<<S_c>>, <<S_nm>>}
    /\ analyzed_list \in ListsOf(DictsOver(FieldKeys), n)
    /\ snapshot \in {WithIds(l) :
           l \in ListsOf(DictsOver(Proplist(analyzed_list) \ {".id"}),
                         n - Len(analyzed_list))}
    /\ frame = Frame(snapshot, analyzed_list)
    /\ desired_i = 1
    /\ list_pc = "pair"

\* lines 85-122: one iteration of the while loop
Pair ==
    /\ list_pc = "pair"
    /\ Len(frame.current_items) > 0 /\ Len(frame.desired_items) > 0
    /\ frame' = PairIteration(current_path, frame)
    /\ list_pc' = IF frame'.raised THEN "raised" ELSE "pair"
    /\ UNCHANGED <<current_path, analyzed_list, snapshot, desired_i, imaginedVars, runVars, treeVars, mainVars>>

\* lines 124-132: the while loop has ended, the pending desired items are put
Put ==
    /\ list_pc = "pair"
    /\ Len(frame.current_items) = 0 \/ Len(frame.desired_items) = 0
    /\ frame' = PutLoop(current_path, frame, 1)
    /\ list_pc' = "delete"
    /\ UNCHANGED <<current_path, analyzed_list, snapshot, desired_i, imaginedVars, runVars, treeVars, mainVars>>

\* lines 134-144: the pending current items are deleted
Delete ==
    /\ list_pc = "delete"
    /\ frame' = DeleteLoop(current_path, frame, 1)
    /\ list_pc' = IF frame'.raised THEN "raised" ELSE "reorder"
    /\ UNCHANGED <<current_path, analyzed_list, snapshot, desired_i, imaginedVars, runVars, treeVars, mainVars>>

\* lines 157-179: one iteration of the for loop of phase 2
Reorder ==
    /\ list_pc = "reorder"
    /\ current_path \notin non_movable_namespaces
    /\ desired_i <= Len(analyzed_list)
    /\ frame' = ReorderIteration(current_path, frame, analyzed_list[desired_i],
                                 desired_i)
    /\ desired_i' = desired_i + 1
    /\ list_pc' = IF frame'.raised THEN "raised" ELSE "reorder"
    /\ UNCHANGED <<current_path, analyzed_list, snapshot, imaginedVars, runVars, treeVars, mainVars>>

\* lines 152-153 and 181: phase 2 returns
Return ==
    /\ list_pc = "reorder"
    /\ current_path \in non_movable_namespaces \/ desired_i > Len(analyzed_list)
    /\ list_pc' = "done"
    /\ UNCHANGED <<current_path, analyzed_list, snapshot, frame, desired_i,
                   imaginedVars, runVars, treeVars, mainVars>>

NextList == Pair \/ Put \/ Delete \/ Reorder \/ Return

InitList == InitListOf(MaxItems)

SpecList == InitList /\ [][NextList]_vars

\* the same collection with fewer items, for the matcher on its own
InitMatch == InitListOf(MaxMatchItems)

SpecMatch == InitMatch /\ [][NextList]_vars

\* ------------------------------------------- SpecImagined: Imagined alone

\* the snapshot of n items with ids 1..n in list order, each item told from
\* the others by the value of its key k
Letters == <<"p", "q", "r", "s", "t">>
Snapshot(n) ==
    [i \in 1..n |-> [d |-> (".id" :> hex(i)) @@ ("k" :> <<Letters[i]>>),
                     frozen |-> FALSE]]

\* an id as the callers pass it: the string, or the number
IdArgs == {PyStr(hex(n)) : n \in 1..(MaxImagined + 1)}
              \cup {PyInt(n) : n \in 1..(MaxImagined + 1)}

Present(id) == \E i \in 1..Len(state) : IdOf(state[i]) = mt_str(id)

InitImagined ==
    /\ ListIdle
    /\ RunIdle
    /\ TreeIdle
    /\ MainIdle
    /\ \E n \in 0..MaxImagined : state = Snapshot(n)
    /\ ops = 0
    /\ state_raised = FALSE
    /\ call = NoCall

CanCall == ops < MaxOps /\ ~state_raised

\* Imagined.update with a dict, or with a frozendict as phase 1 passes it
Update ==
    /\ CanCall
    /\ \E id \in IdArgs, new_frozen \in BOOLEAN :
          /\ state' = update(state, id, "k" :> <<"u">>, new_frozen)
          /\ call' = [op |-> "update", id |-> id, new_state |-> "k" :> <<"u">>,
                      before |-> state]
    /\ ops' = ops + 1
    /\ state_raised' = FALSE
    /\ UNCHANGED <<listVars, runVars, treeVars, mainVars>>

AppendItem ==
    /\ CanCall
    /\ Len(state) < MaxImagined
    /\ state' = append(state, "k" :> <<"n">>)
    /\ call' = [op |-> "append", item |-> "k" :> <<"n">>, before |-> state]
    /\ ops' = ops + 1
    /\ state_raised' = FALSE
    /\ UNCHANGED <<listVars, runVars, treeVars, mainVars>>

DeleteItem ==
    /\ CanCall
    /\ \E id \in IdArgs :
          /\ state' = delete(state, id).state
          /\ state_raised' = delete(state, id).raised
          /\ call' = [op |-> "delete", id |-> id, before |-> state]
    /\ ops' = ops + 1
    /\ UNCHANGED <<listVars, runVars, treeVars, mainVars>>

\* Imagined.move within its documented domain, the source id above the
\* destination id, or with an id that no item carries
MoveItem ==
    /\ CanCall
    /\ \E number \in IdArgs, destination \in IdArgs :
          /\ \/ ~Present(number)
             \/ ~Present(destination)
             \/ mt_int(number) > mt_int(destination)
          /\ state' = move(state, number, destination).state
          /\ state_raised' = move(state, number, destination).raised
          /\ call' = [op |-> "move", number |-> number, destination |-> destination,
                      before |-> state]
    /\ ops' = ops + 1
    /\ UNCHANGED <<listVars, runVars, treeVars, mainVars>>

NextImagined == Update \/ AppendItem \/ DeleteItem \/ MoveItem

SpecImagined == InitImagined /\ [][NextImagined]_vars

\* --------------------------------------------------- claims of SpecImagined

WithoutId(d) == Restrict(d, (DOMAIN d) \ {".id"})

\* the imagined items as plain dicts, and the same without their ids
ImaginedDicts(l) == [i \in 1..Len(l) |-> l[i].d]
ImaginedFields(l) == [i \in 1..Len(l) |-> WithoutId(l[i].d)]

\* the ids of the imagined list are 1..n in list order
IdsInListOrder(l) == \A i \in 1..Len(l) : l[i].d[".id"] = hex(i)

\* the items of an imagined list, each as its numeric id and its other keys
Numbered(l) ==
    [i \in 1..Len(l) |-> [id |-> mt_int(PyStr(l[i].d[".id"])),
                          fields |-> WithoutId(l[i].d)]]

DistinctIds(l) ==
    \A i, j \in 1..Len(l) : l[i].d[".id"] = l[j].d[".id"] => i = j

\* the positions of the items of l that carry the id
Carrying(l, id) == {i \in 1..Len(l) : l[i].d[".id"] = mt_str(id)}

IdNumbers == {mt_int(PyStr(IdOf(state[i]))) : i \in 1..Len(state)}

\* C3: from a snapshot that is empty or has the ids 1..n in list order,
\* after any sequence of update, append, delete and move (source id above
\* destination id, both present) the ids are pairwise distinct and are
\* exactly 1..n for the current length n.
C3_IdsAreOneToLen ==
    ~state_raised =>
        /\ IdNumbers = 1..Len(state)
        /\ \A i, j \in 1..Len(state) : IdOf(state[i]) = IdOf(state[j]) => i = j

\* C15: Imagined.delete(id) on a list with pairwise distinct ids that holds
\* the id completes, removes the item carrying the id, lowers by one the id
\* of exactly the remaining items whose numeric id was above the removed
\* one, and leaves every other id, all other keys and the order alone.
C15_DeleteRenumbersAbove ==
    ( /\ call.op = "delete"
      /\ DistinctIds(call.before)
      /\ Carrying(call.before, call.id) # {} )
    => LET b == Numbered(call.before)
           i == CHOOSE i \in Carrying(call.before, call.id) : TRUE
           rest == RemoveAt(b, i)
       IN  /\ ~state_raised
           /\ Numbered(state) =
                  [j \in 1..Len(rest) |->
                      IF rest[j].id > b[i].id
                      THEN [rest[j] EXCEPT !.id = @ - 1]
                      ELSE rest[j]]

\* C16: Imagined.move(s, d) with both ids present and s above d, on a list
\* with the ids 1..n in list order, completes; the item that had id s then
\* sits at the position the item with id d held and has id d, every item
\* with an id in [d, s) has its id raised by one and keeps its relative
\* order, the items with an id below d or above s keep id and position, and
\* no item's other keys change.
C16_MoveUp ==
    ( /\ call.op = "move"
      /\ IdsInListOrder(call.before)
      /\ Carrying(call.before, call.number) # {}
      /\ Carrying(call.before, call.destination) # {}
      /\ mt_int(call.number) > mt_int(call.destination) )
    => LET b == Numbered(call.before)
           s == mt_int(call.number)
           d == mt_int(call.destination)
       IN  /\ ~state_raised
           /\ Numbered(state) =
                  [j \in 1..Len(b) |->
                      IF j < d \/ j > s THEN b[j]
                      ELSE IF j = d THEN [id |-> d, fields |-> b[s].fields]
                      ELSE [id |-> b[j - 1].id + 1, fields |-> b[j - 1].fields]]

\* C17: Imagined.append(item) on a non-empty list adds one item at the end,
\* with the keys of item plus .id = (maximum id before the call) + 1, leaves
\* every existing item, id and position as it was, and leaves the item that
\* was passed in as it was.
C17_AppendAfterMax ==
    (call.op = "append" /\ Len(call.before) > 0)
    => LET n == Len(call.before)
           ids == {mt_int(PyStr(call.before[i].d[".id"])) : i \in 1..n}
       IN  /\ ~state_raised
           /\ Len(state) = n + 1
           /\ SubSeq(state, 1, n) = call.before
           /\ DOMAIN state[n + 1].d = {"k", ".id"}
           /\ state[n + 1].d["k"] = <<"n">>
           /\ mt_int(PyStr(state[n + 1].d[".id"])) = Max(ids) + 1
           /\ call.item = "k" :> <<"n">>

C17_Witness ==
    /\ call.op = "append"
    /\ Len(call.before) = 2
    /\ Len(state) = 3
    /\ \E i \in 1..2 : call.before[i].frozen

\* C18: Imagined.append on an empty imagined list, the snapshot empty or
\* the list emptied by deletes, gives the appended item the id 1.
C18_FirstAppendGetsIdOne ==
    (call.op = "append" /\ call.before = <<>>)
    => /\ Len(state) = 1
       /\ mt_int(PyStr(state[1].d[".id"])) = 1

\* C19: Imagined.update(id, new_state) puts new_state with .id set to the
\* id of the item that carried id in that item's place; the number of
\* items, their order and every other item, keys and id, stay as they were.
C19_UpdateInPlace ==
    (call.op = "update" /\ Carrying(call.before, call.id) # {})
    => LET i == Min(Carrying(call.before, call.id))
       IN  /\ ~state_raised
           /\ Len(state) = Len(call.before)
           /\ state[i].d = (".id" :> call.before[i].d[".id"]) @@ call.new_state
           /\ \A j \in 1..Len(state) : j # i => state[j] = call.before[j]

C19_Witness ==
    /\ call.op = "update"
    /\ Carrying(call.before, call.id) = {2}
    /\ state[2] # call.before[2]
    /\ call.before[2].d[".id"] # hex(2)

\* C20: Imagined.move with a source id or a destination id that no item
\* carries fails, and the imagined list, items, order and ids, is exactly
\* what it was before the call.
C20_MoveOfAbsentIdFails ==
    ( /\ call.op = "move"
      /\ \/ Carrying(call.before, call.number) = {}
         \/ Carrying(call.before, call.destination) = {} )
    => /\ state_raised
       /\ state = call.before

C20_Witness ==
    /\ call.op = "move"
    /\ Len(call.before) >= 2
    /\ Carrying(call.before, call.number) = {}
    /\ Carrying(call.before, call.destination) = {1}
    /\ state_raised

\* ------------------------------------------------------ claims of SpecList

\* C8: reconciling a collection whose current list is empty completes and
\* yields exactly one PUT at the collection path per desired item, in the
\* order of the desired list, with set_dict the item, and no other action.
C8_EmptyCurrentPutsEveryDesired ==
    snapshot = <<>> =>
        /\ list_pc # "raised"
        /\ list_pc = "done" =>
              /\ Len(frame.actions) = Len(analyzed_list)
              /\ \A i \in 1..Len(analyzed_list) :
                    /\ frame.actions[i].kind = "PUT"
                    /\ frame.actions[i].path = current_path
                    /\ frame.actions[i].set_dict = analyzed_list[i]

C8_Witness ==
    /\ list_pc = "done"
    /\ snapshot = <<>>
    /\ current_path \notin non_movable_namespaces
    /\ Len(analyzed_list) >= 2
    /\ analyzed_list[1] # analyzed_list[2]
    /\ Len(frame.actions) = Len(analyzed_list)

\* the current items equal the desired items position by position once
\* .id is ignored
EqualModuloId ==
    /\ Len(snapshot) = Len(analyzed_list)
    /\ \A i \in 1..Len(snapshot) : WithoutId(snapshot[i]) = analyzed_list[i]

\* C9: when the current items equal the desired items position by position
\* (.id ignored) the reconciliation completes with zero actions, also for
\* duplicate items and for items with no key but .id.
C9_EqualListsYieldNoAction ==
    (list_pc # "idle" /\ EqualModuloId) =>
        /\ list_pc # "raised"
        /\ frame.actions = <<>>

\* C10: an iteration of the pairing loop that matches (c, d) appends one
\* PATCH at <path>/<c.id> with set_dict = d, and replaces the imagined item
\* of that id by d with the id kept, exactly when some key k of d has
\* (k not in c and d[k] != "") or (k in c and c[k] != d[k]); otherwise it
\* appends no action and leaves the imagined list alone.
C10_PatchIffDesiredDiffers ==
    [][(list_pc = "pair" /\ list_pc' = "pair") =>
          LET c == frame'.max_current_item
              d == frame'.max_desired_item
              differs == \E k \in DOMAIN d :
                            \/ k \notin DOMAIN c /\ d[k] # <<>>
                            \/ k \in DOMAIN c /\ c[k] # d[k]
              before == frame.imagined_items
              dicts(l) == [i \in 1..Len(l) |-> l[i].d]
          IN  IF differs
              THEN /\ Len(frame'.actions) = Len(frame.actions) + 1
                   /\ SubSeq(frame'.actions, 1, Len(frame.actions)) = frame.actions
                   /\ LET patch == frame'.actions[Len(frame'.actions)]
                      IN  /\ patch.kind = "PATCH"
                          /\ patch.path = Append(current_path, c[".id"])
                          /\ patch.set_dict = d
                   /\ dicts(frame'.imagined_items) =
                          [i \in 1..Len(before) |->
                              IF before[i].d[".id"] = c[".id"]
                              THEN (".id" :> c[".id"]) @@ d
                              ELSE before[i].d]
              ELSE /\ frame'.actions = frame.actions
                   /\ frame'.imagined_items = frame.imagined_items]_vars

\* a pair was matched whose desired item adds a key with a value, and a
\* pair was matched whose desired item adds a key with the empty string
C10_Witness ==
    /\ list_pc = "pair"
    /\ ~IsNone(frame.max_current_item)
    /\ Len(frame.actions) = 1
    /\ frame.actions[1].kind = "PATCH"
    /\ frame.actions[1].set_dict = frame.max_desired_item
    /\ \E k \in DOMAIN frame.max_desired_item :
          /\ k \notin DOMAIN frame.max_current_item
          /\ frame.max_desired_item[k] # <<>>
    /\ Len(snapshot) = 2 /\ Len(analyzed_list) = 2
    /\ Len(frame.current_items) = 0

CountKind(l, kind) == Cardinality({i \in 1..Len(l) : l[i].kind = kind})

\* C11: phase 1 never raises; once it has ended, the pairing loop has paired
\* min(|current|, |desired|) items, leaving one pending list empty, and the
\* actions hold max(0, |desired| - |current|) PUTs and
\* max(0, |current| - |desired|) DELETEs.
C11_PairsMinThenPutsAndDeletes ==
    /\ ~(list_pc = "raised" /\ desired_i = 1)
    /\ list_pc \in {"reorder", "done"} =>
          LET c == Len(snapshot)
              d == Len(analyzed_list)
          IN  /\ Len(frame.current_items) = c - Min({c, d})
              /\ Len(frame.desired_items) = d - Min({c, d})
              /\ CountKind(frame.actions, "PUT") = Max({0, d - c})
              /\ CountKind(frame.actions, "DELETE") = Max({0, c - d})

Count(l, x) == Cardinality({i \in 1..Len(l) : l[i] = x})

\* the two lists hold the same items, each as often
SameItems(a, b) ==
    /\ Len(a) = Len(b)
    /\ \A x \in Range(a) \cup Range(b) : Count(a, x) = Count(b, x)

\* the position a step of phase 2 is at holds another item than the desired
\* one, and a later position holds the desired one
MoveDue(l, desired, i) ==
    /\ i <= Len(l)
    /\ WithoutId(l[i].d) # desired
    /\ \E j \in (i + 1)..Len(l) : WithoutId(l[j].d) = desired

\* C12: on a movable path, with the imagined ids 1..n in list order: a step
\* of phase 2 at a position i holding another item than desired[i], with the
\* first later item equal to desired[i] at position j, does not raise, emits
\* one POST at <path>/move with numbers the id of that item and destination
\* the id at position i, and leaves the item at position i with that id and
\* the items of i..j-1 behind it with their ids raised by one; and phase 2
\* ends, when the imagined list holds the desired items, with each position
\* holding its desired item.
C12_ReorderPlan ==
    [][ /\ ( /\ list_pc = "reorder"
             /\ desired_i' = desired_i + 1
             /\ IdsInListOrder(frame.imagined_items)
             /\ MoveDue(frame.imagined_items, analyzed_list[desired_i], desired_i) )
           => LET l == ImaginedDicts(frame.imagined_items)
                  i == desired_i
                  j == Min({k \in (i + 1)..Len(l) :
                               WithoutId(l[k]) = analyzed_list[i]})
              IN  /\ list_pc' = "reorder"
                  /\ frame'.actions =
                        Append(frame.actions,
                               [kind |-> "POST",
                                path |-> Append(current_path, S_move),
                                set_dict |-> ("numbers" :> l[j][".id"])
                                                @@ ("destination" :> l[i][".id"]),
                                current_dict |-> <<>>])
                  /\ ImaginedDicts(frame'.imagined_items) =
                        [k \in 1..Len(l) |->
                            IF k < i \/ k > j THEN l[k]
                            ELSE IF k = i THEN (".id" :> l[i][".id"]) @@ l[j]
                            ELSE (".id" :> hex(k)) @@ l[k - 1]]
        /\ ( /\ list_pc' = "done"
             /\ current_path \notin non_movable_namespaces
             /\ SameItems(ImaginedFields(frame'.imagined_items), analyzed_list) )
           => ImaginedFields(frame'.imagined_items) = analyzed_list
      ]_vars

\* every desired position holds, in the imagined list, an item equal to the
\* desired one but for .id
InDesiredOrder(l, desired) ==
    \A i \in 1..Len(desired) : i <= Len(l) /\ WithoutId(l[i].d) = desired[i]

\* C14: when every position of the imagined list holds an item equal to the
\* desired item of that position but for .id, equal items among them or
\* not, a step of phase 2 emits no action and leaves the imagined list,
\* items, order and ids, as it is, so that phase 2 ends with zero actions.
C14_StableReorder ==
    [][ ( /\ list_pc = "reorder"
          /\ InDesiredOrder(frame.imagined_items, analyzed_list) )
        => /\ list_pc' \in {"reorder", "done"}
           /\ frame'.actions = frame.actions
           /\ frame'.imagined_items = frame.imagined_items
      ]_vars

C14_Witness ==
    /\ list_pc = "done"
    /\ current_path \notin non_movable_namespaces
    /\ desired_i = Len(analyzed_list) + 1
    /\ Len(analyzed_list) >= 2
    /\ analyzed_list[1] = analyzed_list[2]
    /\ DOMAIN analyzed_list[1] # {}
    /\ InDesiredOrder(frame.imagined_items, analyzed_list)
    /\ frame.actions = <<>>

\* C13: every POST at <path>/move that phase 2 has emitted names a source
\* id (numbers) numerically above its destination id, and so do the two ids
\* that the move due at the position phase 2 is at will be called with.
C13_MovesGoUp ==
    /\ \A i \in 1..Len(frame.actions) :
          frame.actions[i].kind = "POST" =>
              mt_int(PyStr(frame.actions[i].set_dict["numbers"]))
                  > mt_int(PyStr(frame.actions[i].set_dict["destination"]))
    /\ ( /\ list_pc = "reorder"
         /\ current_path \notin non_movable_namespaces
         /\ desired_i <= Len(analyzed_list)
         /\ MoveDue(frame.imagined_items, analyzed_list[desired_i], desired_i) )
       => LET l == frame.imagined_items
              j == Min({k \in (desired_i + 1)..Len(l) :
                           WithoutId(l[k].d) = analyzed_list[desired_i]})
          IN  mt_int(PyStr(l[j].d[".id"])) > mt_int(PyStr(l[desired_i].d[".id"]))

\* phase 2 has ended with a move emitted behind the actions of phase 1
C13_Witness ==
    /\ list_pc = "done"
    /\ Len(frame.actions) >= 2
    /\ frame.actions[1].kind # "POST"
    /\ frame.actions[Len(frame.actions)].kind = "POST"


\* C26: when phase 1 has ended, the imagined list has as many items as the
\* desired list and holds the desired items, each as often as the desired
\* list does: the items a DELETE was emitted for are gone from it and the
\* matched and the appended items are in it.
C26_PhaseOneLeavesTheDesiredItems ==
    (list_pc = "reorder" /\ desired_i = 1) =>
        /\ Len(frame.imagined_items) = Len(analyzed_list)
        /\ SameItems(ImaginedFields(frame.imagined_items), analyzed_list)

\* C29: a step of the DELETE loop or of phase 2 that starts with a patched
\* item in the imagined list (update stored the frozen desired item), phase 2
\* being at a position the imagined list has, does not raise.
C29_PatchedItemStaysRenumberable ==
    [][ ( /\ list_pc \in {"delete", "reorder"}
          /\ \E i \in 1..Len(frame.imagined_items) : frame.imagined_items[i].frozen
          /\ list_pc = "reorder" => desired_i <= Len(frame.imagined_items) )
        => list_pc' # "raised"
      ]_vars

\* ---------------------------------------------------- claims of SpecMatch

\* the items the matcher is given: the items of the device with their ids
\* and the desired items
MatcherItems == Range(snapshot) \cup Range(analyzed_list)

\* C24: for all items a and b the score of a against b is the score of b
\* against a and is the number of keys other than .id that both hold with
\* the same value; a and b test equal exactly when they hold the same keys
\* and values once .id is taken out of both; and when they test equal the
\* score is the number of keys of a other than .id.
C24_ItemMatcher ==
    \A a, b \in MatcherItems :
        /\ _score_items(a, b) = _score_items(b, a)
        /\ _score_items(a, b) =
              Cardinality({k \in ((DOMAIN a) \cap (DOMAIN b)) \ {".id"} : a[k] = b[k]})
        /\ _test_equality(a, b) <=>
              /\ (DOMAIN a) \ {".id"} = (DOMAIN b) \ {".id"}
              /\ \A k \in (DOMAIN a) \ {".id"} : a[k] = b[k]
        /\ _test_equality(a, b) =>
              _score_items(a, b) = Cardinality((DOMAIN a) \ {".id"})

C24_Witness ==
    /\ list_pc = "reorder"
    /\ \E a, b \in Range(snapshot) :
          /\ a[".id"] # b[".id"]
          /\ DOMAIN a = {".id", "a", "b"}
          /\ _test_equality(a, b)
    /\ \E a \in Range(snapshot), b \in Range(analyzed_list) :
          /\ DOMAIN a # {".id"}
          /\ _test_equality(a, b)
          /\ _score_items(b, a) = 2

\* ------------------------------------------------- the device behind /rest

\* The device keeps a collection as the list of its items; the id of an item
\* is its position, so that a PUT appends with id max + 1, a DELETE lowers
\* every higher id by one and a move shifts the ids between its two ends.
S_d == <<"d">>
S_s == <<"s">>

\* the bodies of the responses that carry an error; details are only ever
\* compared with each other
ErrNoSuchCommand == ("error" :> 400) @@ ("detail" :> "no such command")
ErrFailure == ("error" :> 400) @@ ("detail" :> "failure")
ErrNotFound == ("error" :> 404) @@ ("detail" :> "no such item")
ErrBare == "error" :> 500
ErrorResponses == {ErrNoSuchCommand, ErrFailure, ErrBare}

Parent(path) == SubSeq(path, 1, Len(path) - 1)
Last(path) == path[Len(path)]
Position(id) == mt_int(PyStr(id))

\* GET <path>?.proplist=...: the items with their ids, the listed keys only
DeviceGet(dev, path, proplist) ==
    AsList([i \in 1..Len(dev[path]) |->
               Restrict(DictOr(dev[path][i], ".id" :> hex(i)), proplist)])

DevicePatch(dev, path, set_dict) ==
    LET coll == Parent(path)
        pos == Position(Last(path))
    IN  IF coll \notin DOMAIN dev \/ pos \notin 1..Len(dev[coll])
        THEN [device |-> dev, response |-> ErrNotFound]
        ELSE [device |-> [dev EXCEPT ![coll][pos] = DictOr(@, set_dict)],
              response |-> DictOr(dev[coll][pos], set_dict)]

DevicePut(dev, path, set_dict) ==
    IF path \notin DOMAIN dev
    THEN [device |-> dev, response |-> ErrNotFound]
    ELSE [device |-> [dev EXCEPT ![path] = Append(@, set_dict)],
          response |-> DictOr(set_dict, ".id" :> hex(Len(dev[path]) + 1))]

DeviceDelete(dev, path) ==
    LET coll == Parent(path)
        pos == Position(Last(path))
    IN  IF coll \notin DOMAIN dev \/ pos \notin 1..Len(dev[coll])
        THEN [device |-> dev, response |-> ErrNotFound]
        ELSE [device |-> [dev EXCEPT ![coll] = RemoveAt(@, pos)],
              response |-> PyNone]

\* the item numbers goes in front of the item destination
DeviceMove(dev, path, set_dict) ==
    LET coll == Parent(path)
        from == Position(set_dict["numbers"])
        to == Position(set_dict["destination"])
        items == dev[coll]
    IN  IF \/ coll \notin DOMAIN dev
           \/ from \notin 1..Len(items)
           \/ to \notin 1..Len(items)
        THEN [device |-> dev, response |-> ErrNotFound]
        ELSE [device |->
                 [dev EXCEPT ![coll] =
                     IF from = to THEN items
                     ELSE InsertAt(RemoveAt(items, from),
                                   IF from > to THEN to ELSE to - 1,
                                   items[from])],
              response |-> PyNone]

DeviceSet(dev, path, set_dict) ==
    LET leaf == Parent(path)
    IN  IF leaf \notin DOMAIN dev
        THEN [device |-> dev, response |-> ErrNotFound]
        ELSE [device |-> [dev EXCEPT ![leaf] = DictOr(@, set_dict)],
              response |-> PyNone]

\* what the device does with the request of an action, and what it answers
DeviceHandle(dev, a) ==
    CASE a.kind = "PATCH" -> DevicePatch(dev, a.path, a.set_dict)
      [] a.kind = "PUT" -> DevicePut(dev, a.path, a.set_dict)
      [] a.kind = "DELETE" -> DeviceDelete(dev, a.path)
      [] a.kind = "POST" ->
            IF Last(a.path) = S_move THEN DeviceMove(dev, a.path, a.set_dict)
            ELSE DeviceSet(dev, a.path, a.set_dict)

\* ----------------------- SpecMirror: one collection planned for the device
\* The reconciler of SpecList on lists of items that all carry every key, so
\* that an item is told from another by what it holds.

MirrorDicts == [FieldKeys -> FieldValues]

InitMirror ==
    /\ ImaginedIdle
    /\ RunIdle
    /\ TreeIdle
    /\ MainIdle
    /\ current_path = <<S_c>>
    /\ analyzed_list \in ListsOf(MirrorDicts, MaxMirrorItems)
    /\ snapshot \in {WithIds([i \in 1..Len(l) |->
                                 Restrict(l[i], Proplist(analyzed_list))]) :
                        l \in ListsOf(MirrorDicts,
                                      MaxMirrorItems - Len(analyzed_list))}
    /\ frame = Frame(snapshot, analyzed_list)
    /\ desired_i = 1
    /\ list_pc = "pair"

SpecMirror == InitMirror /\ [][NextList]_vars

\* ---------------------------------------------------- claims of SpecMirror

\* the device after the executor has issued the actions in their order, and
\* whether it issued them all: it stops at a response that makes _apply raise
RECURSIVE DeviceAfter(_, _)
DeviceAfter(dev, acts) ==
    IF acts = <<>> THEN [device |-> dev, issued |-> TRUE]
    ELSE LET h == DeviceHandle(dev, Head(acts))
         IN  IF Raises(Head(acts), h.response)
             THEN [device |-> dev, issued |-> FALSE]
             ELSE DeviceAfter(h.device, Tail(acts))

\* the collection as the device holds it when the analysis reads it
DeviceOf(path, items) ==
    path :> AsList([i \in 1..Len(items) |-> WithoutId(items[i])])

RunDicts == {("a" :> <<"x">>) @@ ("b" :> v) : v \in {<<"x">>, <<"y">>}}
LeafValues == {<<"n">>, <<"y">>}
LeafKeys == <<"k">>

ListEntry(key, value) ==
    [key |-> key, kind |-> "list", keys |-> <<>>, value |-> value]
DictEntry(key, keys, value) ==
    [key |-> key, kind |-> "dict", keys |-> keys, value |-> value]

\* the awaitable _analyze makes for an entry of the root, once its GET has
\* returned: item_path is "" + "/" + k
AnalyzeEntry(dev, entry) ==
    IF entry.kind = "list"
    THEN ReconcileList(<<entry.key>>,
                       DeviceGet(dev, <<entry.key>>, Proplist(entry.value)),
                       entry.value)
    ELSE _analyze_dict(<<entry.key>>, dev[<<entry.key>>], entry.keys, entry.value)

\* what gather keeps of an awaitable that returned r.actions or raised
Outcome(r) ==
    [st |-> IF r.raised THEN "raised" ELSE "done",
     actions |-> IF r.raised THEN <<>> ELSE r.actions]

GetOf(t) == [method |-> "GET", i |-> t]
RequestOf(i) == [method |-> actions[i].kind, i |-> i]
Mutating == {r \in outstanding : r.method # "GET"}

InitRun ==
    /\ ImaginedIdle
    /\ ListIdle
    /\ TreeIdle
    /\ MainIdle
    /\ \E c_cur \in ListsOf(RunDicts, MaxRunItems) :
       \E c_des \in ListsOf(RunDicts, MaxRunItems - Len(c_cur)) :
       \E d_cur \in ListsOf(RunDicts, MaxRunItems - Len(c_cur) - Len(c_des)) :
       \E d_des \in ListsOf(RunDicts,
                            MaxRunItems - Len(c_cur) - Len(c_des) - Len(d_cur)) :
       \E s_cur \in LeafValues, s_des \in LeafValues :
           /\ device = (<<S_c>> :> c_cur) @@ (<<S_s>> :> ("k" :> s_cur))
                           @@ (<<S_d>> :> d_cur)
           /\ desired_tree = <<ListEntry(S_c, c_des),
                               DictEntry(S_s, LeafKeys, "k" :> s_des),
                               ListEntry(S_d, d_des)>>
    /\ run_no = 0
    /\ run_pc = "start"
    /\ tasks = <<>>
    /\ emitted = <<>>
    /\ actions = <<>>
    /\ sent = 0
    /\ checked = 0
    /\ result = PyNone
    /\ outstanding = {}
    /\ requests = <<>>
    /\ clean = TRUE

\* run is called, for the first time or again once it returned: _analyze
\* makes one awaitable per entry and gather starts them; each runs up to its
\* connection.get.
Run ==
    /\ run_pc = "start" \/ (run_pc = "done" /\ run_no = 1)
    /\ run_no' = run_no + 1
    /\ run_pc' = "analyze"
    /\ tasks' = [t \in 1..Len(desired_tree) |-> [st |-> "get", actions |-> <<>>]]
    /\ outstanding' = {GetOf(t) : t \in 1..Len(desired_tree)}
    /\ emitted' = <<>>
    /\ actions' = <<>>
    /\ sent' = 0
    /\ checked' = 0
    /\ result' = PyNone
    /\ requests' = <<>>
    /\ UNCHANGED <<desired_tree, device, clean, imaginedVars, listVars, treeVars, mainVars>>

\* the GET of an entry returns and its reconciler runs to its end
GetReturns(t) ==
    /\ run_pc = "analyze"
    /\ tasks[t].st = "get"
    /\ tasks' = [tasks EXCEPT ![t] = Outcome(AnalyzeEntry(device, desired_tree[t]))]
    /\ outstanding' = outstanding \ {GetOf(t)}
    /\ UNCHANGED <<desired_tree, device, run_no, run_pc, emitted, actions, sent,
                   checked, result, requests, clean, imaginedVars, listVars, treeVars, mainVars>>

\* the GET of an entry raises (the transport fails, the body is no JSON)
GetRaises(t) ==
    /\ run_pc = "analyze"
    /\ tasks[t].st = "get"
    /\ tasks' = [tasks EXCEPT ![t].st = "raised"]
    /\ outstanding' = outstanding \ {GetOf(t)}
    /\ UNCHANGED <<desired_tree, device, run_no, run_pc, emitted, actions, sent,
                   checked, result, requests, clean, imaginedVars, listVars, treeVars, mainVars>>

\* Gathered content with the result of one awaitable
GatheredAny == \E t \in 1..Len(tasks) : tasks[t].st = "done"

\* asyncio.gather of line 271 has every result
Gathered == \A t \in 1..Len(tasks) : tasks[t].st = "done"

\* gather returns: _analyze chains the results in the order of the awaitables,
\* run returns when there is nothing to do, sorts and enters _apply otherwise
Gather ==
    /\ run_pc = "analyze"
    /\ Gathered
    /\ LET all == chain([t \in 1..Len(tasks) |-> tasks[t].actions])
       IN  /\ emitted' = all
           /\ actions' = SortByKind(all)
           /\ run_pc' = IF Len(all) = 0 THEN "done" ELSE "apply"
    /\ UNCHANGED <<desired_tree, device, run_no, tasks, sent, checked, result,
                   outstanding, requests, clean, imaginedVars, listVars, treeVars, mainVars>>

\* gather hands the first exception on: _analyze and run raise, and what is
\* left of the analysis is cancelled
GatherRaises ==
    /\ run_pc = "analyze"
    /\ \E t \in 1..Len(tasks) : tasks[t].st = "raised"
    /\ run_pc' = "failed"
    /\ outstanding' = {}
    /\ UNCHANGED <<desired_tree, device, run_no, tasks, emitted, actions, sent,
                   checked, result, requests, clean, imaginedVars, listVars, treeVars, mainVars>>

\* SendAll without the await of the response before the next request
CanSendPipelined == run_pc = "apply" /\ sent < Len(actions)

\* the for loop of line 317 is at its next action: the response to the one
\* before it was awaited and checked
CanSend == run_pc = "apply" /\ sent < Len(actions) /\ sent = checked

\* connection.patch, put, delete or post of the next action
Send ==
    /\ CanSend
    /\ sent' = sent + 1
    /\ outstanding' = outstanding \cup {RequestOf(sent + 1)}
    /\ UNCHANGED <<desired_tree, device, run_no, run_pc, tasks, emitted, actions,
                   checked, result, requests, clean, imaginedVars, listVars, treeVars, mainVars>>

\* The device takes a request and answers, either doing what was asked or
\* refusing it; _apply checks the response and goes on, returns or raises.
Respond ==
    /\ run_pc = "apply"
    /\ \E r \in Mutating :
       LET a == actions[r.i]
       IN  \E answer \in {DeviceHandle(device, a)}
                           \cup {[device |-> device, response |-> e] :
                                    e \in ErrorResponses} :
               /\ device' = answer.device
               /\ result' = answer.response
               /\ requests' = Append(requests, a)
               /\ outstanding' = outstanding \ {r}
               /\ checked' = checked + 1
               /\ clean' = (clean /\ ~IsError(answer.response))
               /\ run_pc' = IF Raises(a, answer.response) THEN "failed"
                            ELSE IF checked + 1 = Len(actions) THEN "done"
                            ELSE "apply"
    /\ UNCHANGED <<desired_tree, run_no, tasks, emitted, actions, sent,
                   imaginedVars, listVars, treeVars, mainVars>>

\* the request of an action raises: the transport failed before the device
\* took it
SendRaises ==
    /\ run_pc = "apply"
    /\ \E r \in Mutating :
        /\ outstanding' = outstanding \ {r}
        /\ run_pc' = "failed"
    /\ UNCHANGED <<desired_tree, device, run_no, tasks, emitted, actions, sent,
                   checked, result, requests, clean, imaginedVars, listVars, treeVars, mainVars>>

NextRun ==
    \/ Run
    \/ \E t \in 1..Len(tasks) : GetReturns(t)
    \/ \E t \in 1..Len(tasks) : GetRaises(t)
    \/ Gather
    \/ GatherRaises
    \/ Send
    \/ Respond
    \/ SendRaises

SpecRun == InitRun /\ [][NextRun]_vars

\* ------------------------------------------------------ claims of SpecRun

\* the actions the reconciler of an entry returns for the device as it is
ActionsOfEntry(t) == AnalyzeEntry(device, desired_tree[t]).actions

\* C28: whichever GETs have returned and whichever are outstanding, the
\* result of an awaitable is what its reconciler makes of its own entry and
\* its own collection alone; and the action list the analysis hands to the
\* executor is the results of the entries joined in the key order of the
\* desired tree.
C28_ActionsInKeyOrder ==
    /\ run_pc = "analyze" =>
          \A t \in 1..Len(tasks) :
              tasks[t].st = "done" => tasks[t].actions = ActionsOfEntry(t)
    /\ (run_pc \in {"apply", "done"} /\ checked = 0) =>
          emitted = ActionsOfEntry(1) \o ActionsOfEntry(2) \o ActionsOfEntry(3)

\* the GET of the last entry has returned before the GETs of the first two,
\* and its reconciler has actions
C28_Witness ==
    /\ run_pc = "analyze"
    /\ tasks[1].st = "get" /\ tasks[2].st = "get"
    /\ tasks[3].st = "done" /\ tasks[3].actions # <<>>
    /\ ActionsOfEntry(1) # <<>>

\* C1: after a first run in which every request succeeded, the analysis of a
\* second run with the same desired tree against the device as the first run
\* left it emits no action for any entry.
C1_SecondRunEmitsNothing ==
    (run_no = 2 /\ clean) =>
        \A t \in 1..Len(tasks) : tasks[t].actions = <<>>

OfKind(l, kind) ==
    LET test(a) == a.kind = kind
    IN  SelectSeq(l, test)

IsPrefix(p, l) == Len(p) <= Len(l) /\ p = SubSeq(l, 1, Len(p))

\* C2: the requests the device has received in a run never hold a kind
\* behind a kind of greater value (PATCH, PUT, DELETE, POST), and the
\* requests of one kind are, in their order, the first of the actions of that
\* kind as the analysis emitted them.
C2_RequestsSortedStably ==
    /\ \A i, j \in 1..Len(requests) :
           i < j => ActionKind[requests[i].kind] <= ActionKind[requests[j].kind]
    /\ \A kind \in DOMAIN ActionKind :
           IsPrefix(OfKind(requests, kind), OfKind(emitted, kind))

\* a run that ended after the sort changed the order, with two different
\* actions of one kind issued
C2_Witness ==
    /\ run_pc = "done"
    /\ requests = actions
    /\ actions # emitted
    /\ \E i, j \in 1..Len(requests) :
           i < j /\ requests[i].kind = requests[j].kind /\ requests[i] # requests[j]

\* C4: when the response to an action carries the key error and is not a
\* "no such command" on a path ending in move, the run fails with exactly the
\* actions up to that one issued; a failed run stays failed, sends nothing
\* more and the device is asked for nothing more (no later action, no
\* rollback).
C4_ErrorAbortsWithoutRollback ==
    [][ /\ ( /\ checked' = checked + 1
             /\ "error" \in DOMAIN result'
             /\ ~( /\ Last(actions[checked'].path) = S_move
                   /\ "detail" \in DOMAIN result'
                   /\ result'["detail"] = "no such command" ) )
           => (run_pc' = "failed" /\ requests' = SubSeq(actions, 1, checked'))
        /\ run_pc = "failed"
           => ( /\ run_pc' = "failed"
                /\ requests' = requests
                /\ device' = device
                /\ outstanding' \subseteq outstanding )
      ]_vars

\* a run that failed on an error response after it had applied actions and
\* with actions left
C4_Witness ==
    /\ run_pc = "failed"
    /\ "error" \in DOMAIN result
    /\ Len(requests) >= 2
    /\ Len(requests) < Len(actions)

\* C5: at most one mutating request is in flight, and the request in flight
\* is that of the action after the last one whose response was checked, the
\* device having received every request before it.
C5_OneMutatingRequestInFlight ==
    /\ Cardinality({r \in outstanding : r.method # "GET"}) <= 1
    /\ \A r \in outstanding :
           r.method # "GET" => (r.i = checked + 1 /\ Len(requests) = checked)

\* the request of a later action in flight
C5_Witness ==
    /\ checked >= 1
    /\ \E r \in outstanding : r.method # "GET" /\ r.i = checked + 1

\* C6: once a mutating request was sent in a run, the analysis of every entry
\* has completed without failing and no GET is in flight; so a run with a
\* failed analysis never sends one.
C6_ReadThenApply ==
    (sent > 0 \/ requests # <<>> \/ \E r \in outstanding : r.method # "GET") =>
        /\ \A t \in 1..Len(tasks) : tasks[t].st = "done"
        /\ \A r \in outstanding : r.method # "GET"

\* a mutating request reached the device after two entries had emitted actions
C6_Witness ==
    /\ requests # <<>>
    /\ \E t, u \in 1..Len(tasks) :
           t # u /\ tasks[t].actions # <<>> /\ tasks[u].actions # <<>>

\* C7: an error response with detail "no such command" to an action whose
\* path ends in move does not fail the run, which goes on to the next action
\* and ends only with every action issued; any other error response fails it.
C7_MoveRefusalTolerated ==
    [][ /\ (checked' = checked + 1 /\ "error" \in DOMAIN result')
           => IF /\ Last(actions[checked'].path) = S_move
                 /\ "detail" \in DOMAIN result'
                 /\ result'["detail"] = "no such command"
              THEN run_pc' = (IF checked' = Len(actions) THEN "done" ELSE "apply")
              ELSE run_pc' = "failed"
        /\ run_pc' = "done" => requests' = actions'
      ]_vars

\* a first run that ended although its move was refused, with an action
\* issued after the move
C7_Witness ==
    /\ run_no = 1
    /\ run_pc = "done"
    /\ ~clean
    /\ \E i \in 1..(Len(requests) - 1) : Last(requests[i].path) = S_move

\* ------------------------------------------- SpecTree: _analyze on a tree

\* the values a tree holds where it nests no further: null, a str, a number,
\* two lists and two mappings of settings
TreeLeaves ==
    {TNull, TStr(<<"n">>), TInt(1),
     TList(<<>>), TList(<<"a" :> <<"x">>>>),
     TDict(<<"k">>, "k" :> TStr(<<"n">>)),
     TDict(<<"j", "k">>, ("j" :> TStr(<<"y">>)) @@ ("k" :> TStr(<<"n">>)))}

\* the values a second key holds
SecondValues ==
    {TNull, TList(<<>>), TDict(<<"k">>, "k" :> TStr(<<"n">>))}

\* the trees that nest at most d mappings: under the key c any tree one
\* level lower, under a second key s one of the values above
RECURSIVE Trees(_)
Trees(d) ==
    IF d = 0 THEN TreeLeaves
    ELSE TreeLeaves
           \cup {TDict(<<>>, <<>>)}
           \cup {TDict(<<"c">>, "c" :> v) : v \in Trees(d - 1)}
           \cup {TDict(<<"c", "s">>, ("c" :> v) @@ ("s" :> w)) :
                    v \in Trees(d - 1), w \in SecondValues}

\* what the device holds at the path of a mapping of settings, and at the
\* path of a collection
LeafStates ==
    {"k" :> <<"n">>,
     ("j" :> <<"y">>) @@ ("k" :> <<"n">>),
     ("j" :> <<"n">>) @@ ("k" :> <<"n">>),
     ("c" :> <<"n">>) @@ ("s" :> <<"n">>) @@ ("j" :> <<"y">>) @@ ("k" :> <<"y">>)}
ListStates == {<<>>, <<"a" :> <<"x">>>>}

\* the device answers at every path the walk reads
EndpointsFor(calls, cur_list, cur_leaf) ==
    [p \in {calls[i].path : i \in {j \in 1..Len(calls) : calls[j].kind # "raise"}} |->
        IF \E i \in 1..Len(calls) : calls[i].path = p /\ calls[i].kind = "list"
        THEN cur_list ELSE cur_leaf]

InitTree ==
    /\ ImaginedIdle
    /\ ListIdle
    /\ RunIdle
    /\ MainIdle
    /\ tree_root \in Trees(MaxDepth)
    /\ \E cur_list \in ListStates, cur_leaf \in LeafStates :
          endpoints = EndpointsFor(_analyze(<<>>, tree_root), cur_list, cur_leaf)
    /\ awaitables = <<>>
    /\ reads = <<>>
    /\ analyze_pc = "start"
    /\ analyzed = <<>>

\* an awaitable of gather and how far it is
Awaitable(c, o) == [call |-> c, st |-> o.st, actions |-> o.actions]

\* connection.get of the reconciler and the reconciler on what it returned
RunCall(eps, c) ==
    IF c.kind = "list"
    THEN ReconcileList(c.path, DeviceGet(eps, c.path, Proplist(c.value)), c.value)
    ELSE _analyze_dict(c.path, eps[c.path], c.keys, c.value)

\* _analyze is called with the tree at the path "": the walk makes the
\* awaitables and gather starts them
Analyze ==
    /\ analyze_pc = "start"
    /\ awaitables' =
          [i \in 1..Len(_analyze(<<>>, tree_root)) |->
              Awaitable(_analyze(<<>>, tree_root)[i],
                        [st |-> "pending", actions |-> <<>>])]
    /\ analyze_pc' = "gather"
    /\ UNCHANGED <<tree_root, endpoints, reads, analyzed,
                   imaginedVars, listVars, runVars, mainVars>>

\* a reconciler reads its path and runs to its end
Reconcile(t) ==
    /\ analyze_pc = "gather"
    /\ awaitables[t].st = "pending"
    /\ awaitables[t].call.kind # "raise"
    /\ reads' = Append(reads, awaitables[t].call.path)
    /\ awaitables' = [awaitables EXCEPT ![t] =
                         Awaitable(@.call, Outcome(RunCall(endpoints, @.call)))]
    /\ UNCHANGED <<tree_root, endpoints, analyze_pc, analyzed,
                   imaginedVars, listVars, runVars, mainVars>>

\* a call of _analyze on a value that is no mapping raises
Fail(t) ==
    /\ analyze_pc = "gather"
    /\ awaitables[t].st = "pending"
    /\ awaitables[t].call.kind = "raise"
    /\ awaitables' = [awaitables EXCEPT ![t].st = "raised"]
    /\ UNCHANGED <<tree_root, endpoints, reads, analyze_pc, analyzed,
                   imaginedVars, listVars, runVars, mainVars>>

\* gather has every result and _analyze returns their chain (line 271)
Join ==
    /\ analyze_pc = "gather"
    /\ \A t \in 1..Len(awaitables) : awaitables[t].st = "done"
    /\ analyzed' = chain([t \in 1..Len(awaitables) |-> awaitables[t].actions])
    /\ analyze_pc' = "done"
    /\ UNCHANGED <<tree_root, endpoints, awaitables, reads,
                   imaginedVars, listVars, runVars, mainVars>>

\* gather hands the first exception on and _analyze raises
JoinRaises ==
    /\ analyze_pc = "gather"
    /\ \E t \in 1..Len(awaitables) : awaitables[t].st = "raised"
    /\ analyze_pc' = "failed"
    /\ UNCHANGED <<tree_root, endpoints, awaitables, reads, analyzed,
                   imaginedVars, listVars, runVars, mainVars>>

NextTree ==
    \/ Analyze
    \/ \E t \in 1..Len(awaitables) : Reconcile(t)
    \/ \E t \in 1..Len(awaitables) : Fail(t)
    \/ Join
    \/ JoinRaises

SpecTree == InitTree /\ [][NextTree]_vars

\* ----------------------------------------------------- claims of SpecTree

\* the awaitables of a kind that ran to their end
Settled(kind) ==
    {t \in 1..Len(awaitables) :
        awaitables[t].call.kind = kind /\ awaitables[t].st # "pending"}

\* C21: the leaf reconciler, for every mapping the device returns and every
\* desired mapping, desired keys absent from the current one included,
\* returns no action when every desired key has the desired value in the
\* current mapping, and otherwise exactly one POST at <path>/set whose
\* set_dict is the whole desired mapping.
C21_LeafReconciler ==
    \A t \in Settled("dict") :
        LET c == awaitables[t].call
            current_state == endpoints[c.path]
        IN  /\ awaitables[t].st = "done"
            /\ IF \A k \in DOMAIN c.value :
                      k \in DOMAIN current_state /\ current_state[k] = c.value[k]
               THEN awaitables[t].actions = <<>>
               ELSE /\ Len(awaitables[t].actions) = 1
                    /\ awaitables[t].actions[1].kind = "POST"
                    /\ awaitables[t].actions[1].path = Append(c.path, S_set)
                    /\ awaitables[t].actions[1].set_dict = c.value

\* the value a tree holds at a path, if it holds one
RECURSIVE NodeAt(_, _)
NodeAt(node, path) ==
    IF path = <<>> THEN node
    ELSE IF node.kind = "dict" /\ path[1][1] \in DOMAIN node.value
    THEN NodeAt(node.value[path[1][1]], Tail(path))
    ELSE [kind |-> "none"]

\* the paths at which a tree holds a value
RECURSIVE TreePaths(_)
TreePaths(node) ==
    IF node.kind # "dict" THEN {<<>>}
    ELSE {<<>>} \cup UNION {{<<<<k>>>> \o p : p \in TreePaths(node.value[k])} :
                              k \in DOMAIN node.value}

\* a mapping of settings: a non-empty mapping whose first value is a str
SettingsNode(v) ==
    v.kind = "dict" /\ v.keys # <<>> /\ v.value[v.keys[1]].kind = "str"

\* the walk from the root reaches the value at the path by recursion alone:
\* every value above it is a mapping that is no mapping of settings
RECURSIVE Walked(_, _)
Walked(root, path) ==
    \/ path = <<>>
    \/ /\ Walked(root, SubSeq(path, 1, Len(path) - 1))
       /\ NodeAt(root, SubSeq(path, 1, Len(path) - 1)).kind = "dict"
       /\ NodeAt(root, path).kind \notin {"none", "list"}
       /\ ~SettingsNode(NodeAt(root, path))

\* the path names a key of a mapping the walk reaches
KeyOfWalked(root, path) ==
    /\ path # <<>>
    /\ Walked(root, SubSeq(path, 1, Len(path) - 1))
    /\ NodeAt(root, path).kind # "none"

\* the awaitables that are calls of a reconciler of the kind at the path
CallsAt(kind, path) ==
    {t \in 1..Len(awaitables) :
        awaitables[t].call.kind = kind /\ awaitables[t].call.path = path}

\* C22: once _analyze has walked the tree from the path "": a key of a
\* mapping the walk reaches whose value is a list has exactly one call of the
\* list reconciler, with the path <parent path>/<key> and the list; one whose
\* value is a non-empty mapping with a str first has exactly one call of the
\* leaf reconciler, with that path and the mapping; no other path has a call
\* of a reconciler; below a null value or an empty mapping there is no call
\* and no read; and no path is read twice.
C22_TreeDispatch ==
    analyze_pc \in {"gather", "done", "failed"} =>
        /\ \A p \in TreePaths(tree_root) \ {<<>>} :
              LET v == NodeAt(tree_root, p)
              IN  IF KeyOfWalked(tree_root, p) /\ v.kind = "list"
                  THEN /\ Cardinality(CallsAt("list", p)) = 1
                       /\ CallsAt("dict", p) = {}
                       /\ \A t \in CallsAt("list", p) :
                             awaitables[t].call.value = v.items
                  ELSE IF KeyOfWalked(tree_root, p) /\ SettingsNode(v)
                  THEN /\ Cardinality(CallsAt("dict", p)) = 1
                       /\ CallsAt("list", p) = {}
                       /\ \A t \in CallsAt("dict", p) :
                             /\ awaitables[t].call.keys = v.keys
                             /\ DOMAIN awaitables[t].call.value = DOMAIN v.value
                             /\ \A k \in DOMAIN v.value :
                                   v.value[k].kind = "str" =>
                                       awaitables[t].call.value[k] = v.value[k].str
                  ELSE CallsAt("list", p) = {} /\ CallsAt("dict", p) = {}
        /\ \A t \in 1..Len(awaitables) :
              awaitables[t].call.kind \in {"list", "dict"} =>
                  awaitables[t].call.path \in TreePaths(tree_root) \ {<<>>}
        /\ \A p \in TreePaths(tree_root) :
              ( /\ p = <<>> \/ KeyOfWalked(tree_root, p)
                /\ \/ NodeAt(tree_root, p).kind = "null"
                   \/ NodeAt(tree_root, p) = TDict(<<>>, <<>>) )
              => /\ \A t \in 1..Len(awaitables) : ~IsPrefix(p, awaitables[t].call.path)
                 /\ \A i \in 1..Len(reads) : ~IsPrefix(p, reads[i])
        /\ \A i, j \in 1..Len(reads) : reads[i] = reads[j] => i = j
        /\ \A i \in 1..Len(reads) :
              CallsAt("list", reads[i]) \cup CallsAt("dict", reads[i]) # {}

C22_Witness ==
    /\ analyze_pc = "done"
    /\ NodeAt(tree_root, <<<<"c">>, <<"c">>>>).kind = "list"
    /\ SettingsNode(NodeAt(tree_root, <<<<"c">>, <<"s">>>>))
    /\ NodeAt(tree_root, <<<<"s">>>>).kind = "null"
    /\ Len(reads) = 2
    /\ reads[1] = <<<<"c">>, <<"s">>>>

\* the paths of the values _analyze is called with, the root or a value
\* reached by recursion, that are neither a mapping nor null
Malformed(root) ==
    {p \in TreePaths(root) :
        Walked(root, p) /\ NodeAt(root, p).kind \in {"list", "str", "int"}}

\* C23: when the root of the desired tree, or a value reached by recursion,
\* is neither a mapping nor null, the analysis does not return: once every
\* awaitable has run one of them has raised, and no reconciler is called for
\* that value.
C23_MalformedInputFails ==
    \A p \in Malformed(tree_root) :
        /\ analyze_pc # "done"
        /\ CallsAt("list", p) = {} /\ CallsAt("dict", p) = {}
        /\ \A i \in 1..Len(reads) : reads[i] # p
        /\ ( /\ analyze_pc = "gather"
             /\ \A t \in 1..Len(awaitables) : awaitables[t].st # "pending" )
           => \E t \in 1..Len(awaitables) : awaitables[t].st = "raised"

C23_Witness ==
    /\ analyze_pc = "failed"
    /\ NodeAt(tree_root, <<<<"c">>, <<"c">>>>).kind = "int"
    /\ NodeAt(tree_root, <<<<"s">>>>).kind = "list"
    /\ reads = <<<<<<"s">>>>>>


\* ---------------------------------------------------------------- SpecMain
\* main loading the settings: environment, then arguments, then metadata.

EnvValues ==
    [hostname |-> "env-host", HOSTNAME |-> "ENV-HOST", username |-> "env-user",
     password |-> "env-pass", ignore_certificate_errors |-> "1"]

OptionValues ==
    [hostname |-> PyStr("arg-host"), username |-> PyStr("arg-user"),
     password |-> PyStr("arg-pass"), ignore_certificate_errors |-> PyBool(TRUE)]

MetadataValues ==
    [hostname |-> PyStr("meta-host"), username |-> PyStr("meta-user"),
     password |-> PyStr("meta-pass"), ignore_certificate_errors |-> PyBool(TRUE)]

\* a hostname of the document may also be null, or the empty string
MetadataHostnames == {MetadataValues.hostname, PyNone, PyStr("")}

InitMain ==
    /\ ImaginedIdle /\ ListIdle /\ RunIdle /\ TreeIdle
    /\ environ \in {Restrict(EnvValues, S) : S \in SUBSET DOMAIN EnvValues}
    /\ options \in {Restrict(OptionValues, S) : S \in SUBSET Fields}
    /\ metadata \in
           {[f \in S |-> IF f = "hostname" THEN h ELSE MetadataValues[f]] :
               S \in SUBSET Fields, h \in MetadataHostnames}
    /\ settings = NewSettings
    /\ main_pc = "environment"

ApplyEnvironment ==
    /\ main_pc = "environment"
    /\ settings' = apply_environment_variables(settings, environ)
    /\ main_pc' = "arguments"
    /\ UNCHANGED <<imaginedVars, listVars, runVars, treeVars, environ, options, metadata>>

ApplyArguments ==
    /\ main_pc = "arguments"
    /\ settings' = apply_arguments(settings, ClickParams(options))
    /\ main_pc' = "metadata"
    /\ UNCHANGED <<imaginedVars, listVars, runVars, treeVars, environ, options, metadata>>

ApplyMetadata ==
    /\ main_pc = "metadata"
    /\ settings' = apply_metadata(settings, metadata)
    /\ main_pc' = "loaded"
    /\ UNCHANGED <<imaginedVars, listVars, runVars, treeVars, environ, options, metadata>>

Connect ==
    /\ main_pc = "loaded"
    /\ valid(settings)
    /\ main_pc' = "run"
    /\ UNCHANGED <<imaginedVars, listVars, runVars, treeVars, environ, options, metadata, settings>>

Exit ==
    /\ main_pc = "loaded"
    /\ ~valid(settings)
    /\ main_pc' = "exit"
    /\ UNCHANGED <<imaginedVars, listVars, runVars, treeVars, environ, options, metadata, settings>>

NextMain == ApplyEnvironment \/ ApplyArguments \/ ApplyMetadata \/ Connect \/ Exit

SpecMain == InitMain /\ [][NextMain]_vars

\* ------------------------------------------------------ claims of SpecMain

\* what each source supplies for a field
FromMetadata(f) == f \in DOMAIN metadata /\ ~IsNone(metadata[f])
FromCommandLine(f) == f \in DOMAIN options
FromEnvironment(f) == f \in DOMAIN environ \/ Upper[f] \in DOMAIN environ
EnvironmentValues(f) ==
    {PyStr(environ[n]) : n \in {f, Upper[f]} \cap DOMAIN environ}

\* C25: once the settings are loaded, each field holds the value of the
\* highest-precedence source that supplies it, metadata over the command line
\* over the environment; a field supplied by the environment alone holds the
\* environment's value.
C25_SettingsPrecedence ==
    main_pc \in {"loaded", "run", "exit"} =>
        \A f \in Fields :
            /\ FromMetadata(f) => settings[f] = metadata[f]
            /\ ~FromMetadata(f) /\ FromCommandLine(f) => settings[f] = options[f]
            /\ ~FromMetadata(f) /\ ~FromCommandLine(f) /\ FromEnvironment(f) =>
                   settings[f] \in EnvironmentValues(f)

====
